---- MODULE Spec2Model ----
(***************************************************************************)
(* The install ledger of ersilia/utils/installers.py: class Installer, its *)
(* log file (.install.log), the six install steps guarded by _is_done, and *)
(* the entry points check_dependencies and base_installer.                 *)
(*                                                                         *)
(* Strings that reach the log file are sequences of code points, so that   *)
(* sorting, joining with "\n", line splitting and rstrip are computed as   *)
(* Python computes them.                                                   *)
(***************************************************************************)
EXTENDS Integers, Sequences, FiniteSets, TLC

\* ------------------------------------------------------------ strings

\* "\n", the line terminator write_log appends
NL == 10

\* the characters str.rstrip() removes (ASCII whitespace)
Whitespace == {9, 10, 11, 12, 13, 28, 29, 30, 31, 32}

\* the task names the step methods pass to _is_done
CONDA == <<99, 111, 110, 100, 97>>
GIT == <<103, 105, 116>>
RDKIT == <<114, 100, 107, 105, 116>>
CONFIG == <<99, 111, 110, 102, 105, 103>>
BASE_CONDA == <<98, 97, 115, 101, 95, 99, 111, 110, 100, 97>>
SERVER_DOCKER == <<115, 101, 114, 118, 101, 114, 95, 100, 111, 99, 107, 101, 114>>

Tasks == {CONDA, GIT, RDKIT, CONFIG, BASE_CONDA, SERVER_DOCKER}

\* Python's str comparison: code point by code point, a proper prefix first
RECURSIVE str_lt(_, _)
str_lt(a, b) ==
    IF a = <<>> THEN b # <<>>
    ELSE IF b = <<>> THEN FALSE
    ELSE IF a[1] # b[1] THEN a[1] < b[1]
    ELSE str_lt(Tail(a), Tail(b))

\* sorted(self.log, reverse=True)
RECURSIVE sorted_descending(_)
sorted_descending(S) ==
    IF S = {} THEN <<>>
    ELSE LET m == CHOOSE x \in S : \A y \in S \ {x} : str_lt(y, x)
         IN <<m>> \o sorted_descending(S \ {m})

\* sorted(self.log)
RECURSIVE sorted(_)
sorted(S) ==
    IF S = {} THEN <<>>
    ELSE LET m == CHOOSE x \in S : \A y \in S \ {x} : str_lt(x, y)
         IN <<m>> \o sorted(S \ {m})

\* write_lines without the "\n" after each name
RECURSIVE write_lines_no_newline(_)
write_lines_no_newline(ls) ==
    IF ls = <<>> THEN <<>>
    ELSE Head(ls) \o write_lines_no_newline(Tail(ls))

\* the text the loop "for l in sorted(self.log): f.write(l + "\n")" produces
RECURSIVE write_lines(_)
write_lines(ls) ==
    IF ls = <<>> THEN <<>>
    ELSE Head(ls) \o <<NL>> \o write_lines(Tail(ls))

\* "for l in f": the lines of a text, each with its terminator when it has one
\* (from is where the next line starts)
RECURSIVE file_lines(_, _)
file_lines(text, from) ==
    IF from > Len(text) THEN <<>>
    ELSE LET ends == {i \in from..Len(text) : text[i] = NL}
         IN IF ends = {} THEN <<SubSeq(text, from, Len(text))>>
            ELSE LET e == CHOOSE i \in ends : \A j \in ends : i <= j
                 IN <<SubSeq(text, from, e)>> \o file_lines(text, e + 1)

\* l.rstrip()
RECURSIVE rstrip(_)
rstrip(l) ==
    IF l # <<>> /\ l[Len(l)] \in Whitespace
    THEN rstrip(SubSeq(l, 1, Len(l) - 1))
    ELSE l

\* ------------------------------------------------------------ values

\* self.log is None, or a set of task names
None == [none |-> TRUE, items |-> {}]
Some(S) == [none |-> FALSE, items |-> S]

\* the log file: absent, or a text, which open(self.log_file, "r") can read or not
NoFile == [exists |-> FALSE, text |-> <<>>, readable |-> TRUE]
File(t) == [exists |-> TRUE, text |-> t, readable |-> TRUE]

\* the orchestrator processes and the child process each one's base_conda script starts
Procs == {"p1", "p2"}
Child(p) == IF p = "p1" THEN "c1" ELSE "c2"
Children == {Child(p) : p \in Procs}
Insts == Procs \cup Children
Parent(c) == CHOOSE p \in Procs : Child(p) = c

\* directories: the package's candidate directory, and each process's mkdtemp directory
Tmp(p) == IF p = "p1" THEN "tmp1" ELSE "tmp2"
Dirs == {"pkg"} \cup {Tmp(p) : p \in Procs}
Markers == {"setup.py", "README.md", "CODE_OF_CONDUCT.md"}
Files == Markers \cup {"config.json", "credentials.json"}

\* what the candidate directory holds at first: a checkout with every marker file or
\* a directory with one of them only, with or without config.json
Checkouts == {M \cup C : M \in {Markers, {"README.md"}}, C \in {{}, {"config.json"}}}

\* how many orchestrator processes are started, one after the other
MaxRuns == 2

\* how many external commands fail although they could have succeeded
MaxFailures == 1

\* how many methods a caller other than check_dependencies calls on one Installer
MaxCalls == 2

\* ------------------------------------------------------------ state

VARIABLES
    file,               \* EOS/.install.log
    tools,              \* the executables shutil.which finds
    modules,            \* the python environments in which "import rdkit" succeeds, and
                        \* (as Broken) those in which it raises another error than
                        \* ModuleNotFoundError
    conda_envs,         \* the conda environments SimpleConda.exists finds
    images,             \* the images SimpleDocker.exists finds
    eos,                \* EOS/config.json and EOS/credentials.json: "absent", "link" or "file"
    dirs,               \* the files of each directory of Dirs
    pc,                 \* each process's position
    stack,              \* each process's active step methods, innermost last
    todo,               \* the calls its entry point has still to make
    kind,               \* its entry point
    check_install_log,  \* self.check_install_log
    log,                \* self.log
    development_path,   \* self.development_path: "None" or a directory
    home,               \* the directory two levels above its installers.py
    pyenv,              \* the python environment it runs in
    acts,               \* per task: how many install commands were started under tracking
    attempted,          \* the tasks whose step ran under tracking since the log was last removed
    cleared,            \* whether remove_log was called
    runs,               \* how many orchestrator processes were started
    calls,              \* how many methods the running clients have called
    fails,              \* how many external commands have failed although they could have succeeded
    overlap,            \* whether an orchestrator process was started while another one ran
    resolved,           \* per artifact: how many calls of its resolver went past the destination test
    last                \* the step taken last: who, what, and its external calls in order

vars == <<file, tools, modules, conda_envs, images, eos, dirs, pc, stack, todo, kind,
          check_install_log, log, development_path, home, pyenv, acts, attempted, cleared, runs, calls, fails,
          overlap, resolved, last>>

machine == <<tools, modules, conda_envs, images, eos, dirs>>
fields == <<kind, check_install_log, home, pyenv, todo>>
history == <<acts, cleared, runs, calls, fails, overlap, resolved>>

Stopped == {"new", "done", "dead"}

Top(p) == IF stack[p] = <<>> THEN <<>> ELSE stack[p][Len(stack[p])]

Note(p, op, task, ev) == last' = [who |-> p, op |-> op, task |-> task, ev |-> ev]

\* a step method returns: into git's run_command when git called it, else to the caller
Return(p) ==
    IF Len(stack[p]) > 1
    THEN /\ pc' = [pc EXCEPT ![p] = "action"]
         /\ stack' = [stack EXCEPT ![p] = SubSeq(stack[p], 1, Len(stack[p]) - 1)]
    ELSE /\ pc' = [pc EXCEPT ![p] = "returned"]
         /\ UNCHANGED stack

Goto(p, where) ==
    /\ pc' = [pc EXCEPT ![p] = where]
    /\ UNCHANGED stack

\* the results an external command can have: it fails where it cannot succeed
Outcomes(possible) ==
    IF ~possible THEN {FALSE}
    ELSE IF fails < MaxFailures THEN {TRUE, FALSE} ELSE {TRUE}

Failed(ok, possible) == IF possible /\ ~ok THEN fails + 1 ELSE fails

\* the install command of a step is started
Count(p, task) ==
    IF check_install_log[p] THEN [acts EXCEPT ![task] = @ + 1] ELSE acts

\* ------------------------------------------------------------ the ledger

write_log(lg, f) ==
    IF lg.none THEN f
    ELSE [File(write_lines(sorted(lg.items))) EXCEPT !.readable = f.readable]

\* update_log that does not call write_log
update_log_memory_only(lg, f, task) ==
    LET a == IF lg.none THEN Some({task}) ELSE lg
        b == Some(a.items \cup {task})
    IN [log |-> b, file |-> f]

\* update_log that replaces the set by the new task
update_log_replaces(lg, f, task) ==
    LET b == Some({task})
    IN [log |-> b, file |-> write_log(b, f)]

update_log(lg, f, task) ==
    LET a == IF lg.none THEN Some({task}) ELSE lg
        b == Some(a.items \cup {task})
    IN [log |-> b, file |-> write_log(b, f)]

\* read_log that does not read
read_log_keeps_none(lg, f) == lg

\* read_log that starts from an empty set when there is no file
read_log_empty_when_absent(lg, f) ==
    IF ~f.exists THEN Some({})
    ELSE LET ls == file_lines(f.text, 1)
         IN Some({rstrip(ls[i]) : i \in 1..Len(ls)})

read_log(lg, f) ==
    IF ~f.exists THEN lg
    ELSE LET ls == file_lines(f.text, 1)
         IN Some({rstrip(ls[i]) : i \in 1..Len(ls)})

\* _is_done that leaves the recording for later
_is_done_never_records(p) ==
    /\ pc[p] = "is_done"
    /\ IF check_install_log[p] /\ ~log[p].none /\ Top(p) \in log[p].items
       THEN /\ Return(p)
            /\ Note(p, "skip", Top(p), <<>>)
       ELSE /\ Goto(p, "probe")
            /\ Note(p, "untracked", Top(p), <<>>)
    /\ attempted' = IF check_install_log[p] THEN attempted \cup {Top(p)} ELSE attempted
    /\ UNCHANGED <<log, file, machine, fields, development_path, history>>

\* _is_done that does not look at check_install_log
_is_done_ignores_flag(p) ==
    /\ pc[p] = "is_done"
    /\ IF ~log[p].none /\ Top(p) \in log[p].items
       THEN /\ Return(p)
            /\ Note(p, "skip", Top(p), <<>>)
            /\ UNCHANGED <<log, file>>
       ELSE LET u == update_log(log[p], file, Top(p))
            IN /\ log' = [log EXCEPT ![p] = u.log]
               /\ file' = u.file
               /\ Goto(p, "probe")
               /\ Note(p, "mark", Top(p), <<"write_log">>)
    /\ attempted' = attempted \cup {Top(p)}
    /\ UNCHANGED <<machine, fields, development_path, history>>

\* _is_done that calls update_log before it looks the task up
_is_done_rewrites(p) ==
    /\ pc[p] = "is_done"
    /\ IF ~check_install_log[p]
       THEN /\ Goto(p, "probe")
            /\ Note(p, "untracked", Top(p), <<>>)
            /\ UNCHANGED <<log, file, attempted>>
       ELSE LET u == update_log(log[p], file, Top(p))
            IN /\ log' = [log EXCEPT ![p] = u.log]
               /\ file' = u.file
               /\ attempted' = attempted \cup {Top(p)}
               /\ IF ~log[p].none /\ Top(p) \in log[p].items
                  THEN Return(p) /\ Note(p, "skip", Top(p), <<"write_log">>)
                  ELSE Goto(p, "probe") /\ Note(p, "mark", Top(p), <<"write_log">>)
    /\ UNCHANGED <<machine, fields, development_path, history>>

_is_done(p) ==
    /\ pc[p] = "is_done"
    /\ IF ~check_install_log[p]
       THEN /\ Goto(p, "probe")
            /\ Note(p, "untracked", Top(p), <<>>)
            /\ UNCHANGED <<log, file, attempted>>
       ELSE IF ~log[p].none /\ Top(p) \in log[p].items
       THEN /\ Return(p)
            /\ Note(p, "skip", Top(p), <<>>)
            /\ attempted' = attempted \cup {Top(p)}
            /\ UNCHANGED <<log, file>>
       ELSE LET u == update_log(log[p], file, Top(p))
            IN /\ log' = [log EXCEPT ![p] = u.log]
               /\ file' = u.file
               /\ attempted' = attempted \cup {Top(p)}
               /\ Goto(p, "probe")
               /\ Note(p, "mark", Top(p), <<"write_log">>)
    /\ UNCHANGED <<machine, fields, development_path, history>>

_is_tool(name) == name \in tools

\* ------------------------------------------------------------ artifacts

_package_path(dp, path, d) ==
    IF dp = "None"
    THEN LET a == IF "setup.py" \notin d[path] THEN "None" ELSE dp
             b == IF "README.md" \notin d[path] THEN "None" ELSE a
             c == IF "CODE_OF_CONDUCT.md" \notin d[path] THEN "None" ELSE b
         IN path
    ELSE dp

\* _config without the test of the destination
_config_ignores_destination(p) ==
    /\ pc[p] = "ctor_config"
    /\ Goto(p, "ctor_credentials")
    /\ LET dp == _package_path(development_path[p], home[p], dirs)
           src_exists == IF dp = "None" THEN FALSE ELSE "config.json" \in dirs[dp]
       IN /\ development_path' = [development_path EXCEPT ![p] = dp]
          /\ resolved' = [resolved EXCEPT !.config = @ + 1]
          /\ IF src_exists
             THEN /\ eos' = [eos EXCEPT !.config = "link"]
                  /\ Note(p, "_config", <<>>, <<"symlink">>)
                  /\ UNCHANGED fails
             ELSE \E ok \in Outcomes(TRUE) :
                  /\ eos' = [eos EXCEPT !.config = IF ok THEN "file" ELSE @]
                  /\ fails' = Failed(ok, TRUE)
                  /\ Note(p, "_config", <<>>, <<"download_single">>)
    /\ UNCHANGED <<file, log, attempted, tools, modules, conda_envs, images, dirs, fields,
                   acts, cleared, runs, calls, overlap>>

_config(p) ==
    /\ pc[p] = "ctor_config"
    /\ Goto(p, "ctor_credentials")
    /\ IF eos.config # "absent"
       THEN /\ Note(p, "_config", <<>>, <<>>)
            /\ UNCHANGED <<eos, development_path, fails, resolved>>
       ELSE LET dp == _package_path(development_path[p], home[p], dirs)
                src_exists == IF dp = "None" THEN FALSE ELSE "config.json" \in dirs[dp]
            IN /\ development_path' = [development_path EXCEPT ![p] = dp]
               /\ resolved' = [resolved EXCEPT !.config = @ + 1]
               /\ IF src_exists
                  THEN /\ eos' = [eos EXCEPT !.config = "link"]
                       /\ Note(p, "_config", <<>>, <<"symlink">>)
                       /\ UNCHANGED fails
                  ELSE \E ok \in Outcomes(TRUE) :
                       /\ eos' = [eos EXCEPT !.config = IF ok THEN "file" ELSE @]
                       /\ fails' = Failed(ok, TRUE)
                       /\ Note(p, "_config", <<>>, <<"download_single">>)
    /\ UNCHANGED <<file, log, attempted, tools, modules, conda_envs, images, dirs, fields,
                   acts, cleared, runs, calls, overlap>>

_credentials(p) ==
    /\ pc[p] = "ctor_credentials"
    /\ IF eos.credentials # "absent"
       THEN /\ Goto(p, "ctor_read_log")
            /\ Note(p, "_credentials", <<>>, <<>>)
            /\ UNCHANGED <<eos, dirs, development_path, fails, resolved>>
       ELSE LET dp == _package_path(development_path[p], home[p], dirs)
            IN /\ development_path' = [development_path EXCEPT ![p] = dp]
               /\ resolved' = [resolved EXCEPT !.credentials = @ + 1]
               /\ IF dp = "None"
                  THEN \* src is unbound at line 67: UnboundLocalError
                       /\ Goto(p, "dead")
                       /\ Note(p, "_credentials", <<>>, <<>>)
                       /\ UNCHANGED <<eos, dirs, fails>>
                  ELSE IF "credentials.json" \in dirs[dp]
                  THEN /\ Goto(p, "ctor_read_log")
                       /\ eos' = [eos EXCEPT !.credentials = "link"]
                       /\ Note(p, "_credentials", <<>>, <<"symlink">>)
                       /\ UNCHANGED <<dirs, fails>>
                  ELSE \E done \in Outcomes(TRUE) :
                       /\ Goto(p, "ctor_read_log")
                       /\ fails' = Failed(done, TRUE)
                       /\ dirs' = [dirs EXCEPT ![dp] = IF done THEN @ \cup {"credentials.json"} ELSE @]
                       /\ eos' = [eos EXCEPT !.credentials = IF done THEN "link" ELSE @]
                       /\ Note(p, "_credentials", <<>>,
                               IF done THEN <<"fetch_from_github", "to_credentials", "symlink">>
                               ELSE <<"fetch_from_github", "to_credentials">>)
    /\ UNCHANGED <<file, log, attempted, tools, modules, conda_envs, images, fields,
                   acts, cleared, runs, calls, overlap>>

\* the rest of __init__: self.log = None, then read_log()
__init__(p) ==
    /\ pc[p] = "ctor_read_log"
    /\ IF file.exists /\ ~file.readable
       THEN \* open or the read raises, and nothing catches it
            /\ Goto(p, "dead")
            /\ log' = log
            /\ Note(p, "read_log", <<>>, <<"open">>)
       ELSE /\ Goto(p, "idle")
            /\ log' = [log EXCEPT ![p] = read_log(None, file)]
            /\ Note(p, "read_log", <<>>, IF file.exists THEN <<"read">> ELSE <<>>)
    /\ UNCHANGED <<file, attempted, machine, fields, development_path, history>>

\* Installer(check_install_log=c): the first lines of __init__, in a new process
construct(p, k, c, todo_, dir, env) ==
    /\ pc[p] \in Stopped
    /\ pc' = [pc EXCEPT ![p] = "ctor_config"]
    /\ stack' = [stack EXCEPT ![p] = <<>>]
    /\ todo' = [todo EXCEPT ![p] = todo_]
    /\ kind' = [kind EXCEPT ![p] = k]
    /\ check_install_log' = [check_install_log EXCEPT ![p] = c]
    /\ log' = [log EXCEPT ![p] = None]
    /\ development_path' = [development_path EXCEPT ![p] = "None"]
    /\ home' = [home EXCEPT ![p] = dir]
    /\ pyenv' = [pyenv EXCEPT ![p] = env]
    /\ Note(p, "construct", <<>>, <<>>)
    /\ UNCHANGED <<file, attempted, cleared, machine, acts, fails, resolved>>

\* ------------------------------------------------------------ the steps

\* probe whose result is not looked at
probe_result_unused(p, present, call_) ==
    /\ pc[p] = "probe"
    /\ Goto(p, "action")
    /\ Note(p, IF present THEN "probe_true" ELSE "probe_false", Top(p), <<call_>>)
    /\ UNCHANGED <<file, log, attempted, machine, fields, development_path, history>>

\* a probe that found nothing leads to the step's action; one that found it returns
probe(p, present, call_) ==
    /\ pc[p] = "probe"
    /\ IF present
       THEN Return(p) /\ Note(p, "probe_true", Top(p), <<call_>>)
       ELSE Goto(p, "action") /\ Note(p, "probe_false", Top(p), <<call_>>)
    /\ UNCHANGED <<file, log, attempted, machine, fields, development_path, history>>

\* an install command was started
ran(p, ok, possible) ==
    /\ acts' = Count(p, Top(p))
    /\ fails' = Failed(ok, possible)
    /\ UNCHANGED <<cleared, runs, calls, overlap, resolved>>

conda(p) ==
    /\ Top(p) = CONDA
    /\ \/ _is_done(p)
       \/ probe(p, _is_tool("conda"), "which")
       \/ /\ pc[p] = "action"
          /\ \E ok \in Outcomes(TRUE) :
             /\ tools' = IF ok THEN tools \cup {"conda"} ELSE tools
             /\ ran(p, ok, TRUE)
          /\ Return(p)
          /\ Note(p, "action", CONDA, <<"run_command">>)
          /\ UNCHANGED <<file, log, attempted, modules, conda_envs, images, eos, dirs,
                         fields, development_path>>

git(p) ==
    /\ Top(p) = GIT
    /\ \/ _is_done(p)
       \/ /\ pc[p] = "probe"
          /\ IF _is_tool("git")
             THEN Return(p) /\ Note(p, "probe_true", GIT, <<"which">>)
             ELSE \* self.conda()
                  /\ pc' = [pc EXCEPT ![p] = "is_done"]
                  /\ stack' = [stack EXCEPT ![p] = Append(@, CONDA)]
                  /\ Note(p, "probe_false", GIT, <<"which">>)
          /\ UNCHANGED <<file, log, attempted, machine, fields, development_path, history>>
       \/ /\ pc[p] = "action"
          /\ \E ok \in Outcomes(_is_tool("conda")) :
             /\ tools' = IF ok THEN tools \cup {"git"} ELSE tools
             /\ ran(p, ok, _is_tool("conda"))
          /\ Return(p)
          /\ Note(p, "action", GIT, <<"run_command">>)
          /\ UNCHANGED <<file, log, attempted, modules, conda_envs, images, eos, dirs,
                         fields, development_path>>

\* an environment in which a killed install has left a part of rdkit
Broken(env) == IF env = "cur" THEN "cur_broken" ELSE "base_broken"

\* rdkit with "except Exception" in the place of "except ModuleNotFoundError"
rdkit_any_error_is_absent(p) ==
    /\ Top(p) = RDKIT
    /\ \/ _is_done(p)
       \/ probe(p, pyenv[p] \in modules /\ Broken(pyenv[p]) \notin modules, "import")
       \/ /\ pc[p] = "action"
          /\ \E ok \in Outcomes(_is_tool("conda")) :
             /\ modules' = IF ok THEN modules \cup {pyenv[p]} ELSE modules
             /\ ran(p, ok, _is_tool("conda"))
          /\ Return(p)
          /\ Note(p, "action", RDKIT, <<"run_command">>)
          /\ UNCHANGED <<file, log, attempted, tools, conda_envs, images, eos, dirs,
                         fields, development_path>>

rdkit(p) ==
    /\ Top(p) = RDKIT
    /\ \/ _is_done(p)
       \/ /\ Broken(pyenv[p]) \notin modules
          /\ probe(p, pyenv[p] \in modules, "import")
       \/ \* "import rdkit" raises another error: it leaves rdkit() and its callers
          /\ pc[p] = "probe"
          /\ Broken(pyenv[p]) \in modules
          /\ Goto(p, "dead")
          /\ Note(p, "probe_error", RDKIT, <<"import">>)
          /\ UNCHANGED <<file, log, attempted, machine, fields, development_path, history>>
       \/ /\ pc[p] = "action"
          /\ \E ok \in Outcomes(_is_tool("conda")) :
             /\ modules' = IF ok THEN modules \cup {pyenv[p]} ELSE modules
             /\ ran(p, ok, _is_tool("conda"))
          /\ Return(p)
          /\ Note(p, "action", RDKIT, <<"run_command">>)
          /\ UNCHANGED <<file, log, attempted, tools, conda_envs, images, eos, dirs,
                         fields, development_path>>

config(p) ==
    /\ Top(p) = CONFIG
    /\ \/ _is_done(p)
       \/ probe(p, eos.config # "absent", "exists")
       \/ /\ pc[p] = "action"
          /\ LET dp == _package_path(development_path[p], home[p], dirs)
             IN /\ development_path' = [development_path EXCEPT ![p] = dp]
                /\ IF dp # "None"
                   THEN IF "config.json" \in dirs[dp]
                        THEN /\ eos' = [eos EXCEPT !.config = "file"]
                             /\ ran(p, TRUE, TRUE)
                             /\ Return(p)
                             /\ Note(p, "action", CONFIG, <<"copyfile">>)
                        ELSE \* shutil.copyfile raises FileNotFoundError
                             /\ ran(p, FALSE, FALSE)
                             /\ Goto(p, "dead")
                             /\ Note(p, "action", CONFIG, <<"copyfile">>)
                             /\ UNCHANGED eos
                   ELSE \E ok \in Outcomes(TRUE) :
                        /\ eos' = [eos EXCEPT !.config = IF ok THEN "file" ELSE @]
                        /\ ran(p, ok, TRUE)
                        /\ Return(p)
                        /\ Note(p, "action", CONFIG, <<"download_single">>)
          /\ UNCHANGED <<file, log, attempted, tools, modules, conda_envs, images, dirs, fields>>

RepoFiles == Markers \cup {"config.json"}

\* the files of path_repo after _clone_repo: a copy of the checkout, or a clone
_clone_repo(dp, tmp, d) ==
    IF dp # "None" THEN [d EXCEPT ![tmp] = d[dp]]
    ELSE [d EXCEPT ![tmp] = RepoFiles]

base_conda(p) ==
    /\ Top(p) = BASE_CONDA
    /\ \/ _is_done(p)
       \/ probe(p, "base" \in conda_envs, "sc.exists")
       \/ \* up to the script's "conda create"
          /\ pc[p] = "action"
          /\ p \in Procs
          /\ LET dp == _package_path(development_path[p], home[p], dirs)
             IN /\ development_path' = [development_path EXCEPT ![p] = dp]
                /\ dirs' = _clone_repo(dp, Tmp(p), dirs)
                /\ Note(p, "action", BASE_CONDA,
                        <<IF dp # "None" THEN "copytree" ELSE "clone", "run_command">>)
          /\ \E ok \in Outcomes(_is_tool("conda")) :
             /\ conda_envs' = IF ok THEN conda_envs \cup {"base"} ELSE conda_envs
             /\ ran(p, ok, _is_tool("conda"))
          /\ pc' = [pc EXCEPT ![p] = "wait_child"]
          /\ UNCHANGED <<stack, file, log, attempted, tools, modules, images, eos, fields>>
       \/ \* the script has ended, and with it the python process it started
          /\ pc[p] = "wait_child"
          /\ pc[Child(p)] \in {"done", "dead"}
          /\ pc' = [pc EXCEPT ![p] = "returned", ![Child(p)] = "new"]
          /\ stack' = [stack EXCEPT ![Child(p)] = <<>>]
          /\ log' = [log EXCEPT ![Child(p)] = None]
          /\ development_path' = [development_path EXCEPT ![Child(p)] = "None"]
          /\ kind' = [kind EXCEPT ![Child(p)] = "none"]
          /\ check_install_log' = [check_install_log EXCEPT ![Child(p)] = TRUE]
          /\ home' = [home EXCEPT ![Child(p)] = "pkg"]
          /\ pyenv' = [pyenv EXCEPT ![Child(p)] = "cur"]
          /\ todo' = [todo EXCEPT ![Child(p)] = <<>>]
          /\ dirs' = [dirs EXCEPT ![Tmp(p)] = {}]
          /\ Note(p, "join", BASE_CONDA, <<>>)
          /\ UNCHANGED <<file, attempted, tools, modules, conda_envs, images, eos, history>>

server_docker(p) ==
    /\ Top(p) = SERVER_DOCKER
    /\ \/ _is_done(p)
       \/ probe(p, "server" \in images, "docker.exists")
       \/ /\ pc[p] = "action"
          /\ p \in Procs
          /\ LET dp == _package_path(development_path[p], home[p], dirs)
             IN /\ development_path' = [development_path EXCEPT ![p] = dp]
                /\ dirs' = [_clone_repo(dp, Tmp(p), dirs) EXCEPT ![Tmp(p)] = {}]
                /\ Note(p, "action", SERVER_DOCKER,
                        <<IF dp # "None" THEN "copytree" ELSE "clone", "docker.build">>)
          /\ \E ok \in Outcomes(TRUE) :
             /\ images' = IF ok THEN images \cup {"server"} ELSE images
             /\ ran(p, ok, TRUE)
          /\ Return(p)
          /\ UNCHANGED <<file, log, attempted, tools, modules, conda_envs, eos, fields>>

remove_log(p) ==
    /\ pc[p] = "idle"
    /\ kind[p] = "client"
    /\ calls < MaxCalls
    /\ calls' = calls + 1
    /\ file' = IF file.exists THEN NoFile ELSE file
    /\ attempted' = {}
    /\ cleared' = TRUE
    /\ Note(p, "remove_log", <<>>, IF file.exists THEN <<"remove">> ELSE <<>>)
    /\ UNCHANGED <<pc, stack, log, machine, fields, development_path, acts, runs, fails,
                   overlap, resolved>>

\* ------------------------------------------------------------ entry points

\* a step method is entered
call(p, task) ==
    /\ pc[p] = "idle"
    /\ pc' = [pc EXCEPT ![p] = "is_done"]
    /\ stack' = [stack EXCEPT ![p] = <<task>>]
    /\ Note(p, "call", task, <<>>)
    /\ UNCHANGED <<file, log, attempted, cleared, machine, kind, check_install_log, home,
                   pyenv, development_path, acts, runs, fails, overlap, resolved>>

\* the step method has returned to its caller
returned(p) ==
    /\ pc[p] = "returned"
    /\ pc' = [pc EXCEPT ![p] = "idle"]
    /\ stack' = [stack EXCEPT ![p] = <<>>]
    /\ Note(p, "returned", <<>>, <<>>)
    /\ UNCHANGED <<file, log, attempted, machine, fields, development_path, history>>

\* the entry point returns and the process ends
exit(p) ==
    /\ pc[p] = "idle"
    /\ pc' = [pc EXCEPT ![p] = "done"]
    /\ Note(p, "exit", <<>>, <<>>)
    /\ UNCHANGED <<stack, file, log, attempted, machine, fields, development_path, history>>

\* a new orchestrator process, while no other one is running
spawn(p, P) ==
    /\ p \in P
    /\ \A q \in P \ {p} : pc[q] \in Stopped
    /\ runs < MaxRuns
    /\ runs' = runs + 1
    /\ LET others == \E q \in Procs \ {p} : pc[q] \notin Stopped
       IN /\ calls' = IF others THEN calls ELSE 0
          /\ overlap' = (overlap \/ others)

check_dependencies(p, P) ==
    \/ /\ spawn(p, P)
       /\ construct(p, "check_dependencies", TRUE,
                    <<CONDA, GIT, RDKIT, CONFIG, BASE_CONDA, SERVER_DOCKER>>, "pkg", "cur")
    \/ /\ kind[p] = "check_dependencies"
       /\ todo[p] # <<>>
       /\ call(p, Head(todo[p]))
       /\ todo' = [todo EXCEPT ![p] = Tail(@)]
       /\ UNCHANGED calls
    \/ /\ kind[p] = "check_dependencies"
       /\ todo[p] = <<>>
       /\ exit(p)

\* the script of base_conda starts python on base_installer()
base_installer(c) ==
    \/ /\ c \in Children
       /\ pc[c] = "new"
       /\ pc[Parent(c)] = "wait_child"
       /\ construct(c, "base_installer", FALSE, <<RDKIT>>, Tmp(Parent(c)),
                    IF "base" \in conda_envs THEN "base" ELSE "cur")
       /\ UNCHANGED <<runs, calls, overlap>>
    \/ /\ kind[c] = "base_installer"
       /\ todo[c] # <<>>
       /\ call(c, Head(todo[c]))
       /\ todo' = [todo EXCEPT ![c] = Tail(@)]
       /\ UNCHANGED calls
    \/ /\ kind[c] = "base_installer"
       /\ todo[c] = <<>>
       /\ exit(c)

\* any other caller of the class: an Installer, and calls of its methods in any order
client(p, P) ==
    \/ /\ spawn(p, P)
       /\ \E c \in BOOLEAN : construct(p, "client", c, <<>>, "pkg", "cur")
    \/ /\ kind[p] = "client"
       /\ calls < MaxCalls
       /\ calls' = calls + 1
       /\ \E task \in Tasks : call(p, task)
       /\ UNCHANGED todo
    \/ /\ kind[p] = "client"
       /\ exit(p)

\* the process is killed while an install command runs: its memory is gone
Crash(p) ==
    /\ pc[p] = "action"
    /\ pc' = [pc EXCEPT ![p] = "dead"]
    /\ acts' = Count(p, Top(p))
    /\ stack' = [stack EXCEPT ![p] = <<>>]
    /\ todo' = [todo EXCEPT ![p] = <<>>]
    /\ log' = [log EXCEPT ![p] = None]
    /\ development_path' = [development_path EXCEPT ![p] = "None"]
    /\ Note(p, "crash", Top(p), <<>>)
    /\ \E part \in {FALSE, Top(p) = RDKIT /\ _is_tool("conda")} :
          modules' = IF part THEN modules \cup {Broken(pyenv[p])} ELSE modules
    /\ UNCHANGED <<file, attempted, cleared, tools, conda_envs, images, eos, dirs, kind,
                   check_install_log, home, pyenv, runs, calls, fails, overlap,
                   resolved>>

\* ------------------------------------------------------------ specification

Init ==
    /\ file = NoFile
    /\ tools = {}
    /\ modules = {}
    /\ conda_envs = {}
    /\ images = {}
    /\ eos = [config |-> "absent", credentials |-> "absent"]
    /\ dirs \in {[d \in Dirs |-> IF d = "pkg" THEN S ELSE {}] : S \in Checkouts}
    /\ pc = [p \in Insts |-> "new"]
    /\ stack = [p \in Insts |-> <<>>]
    /\ todo = [p \in Insts |-> <<>>]
    /\ kind = [p \in Insts |-> "none"]
    /\ check_install_log = [p \in Insts |-> TRUE]
    /\ log = [p \in Insts |-> None]
    /\ development_path = [p \in Insts |-> "None"]
    /\ home = [p \in Insts |-> "pkg"]
    /\ pyenv = [p \in Insts |-> "cur"]
    /\ acts = [t \in Tasks |-> 0]
    /\ attempted = {}
    /\ cleared = FALSE
    /\ runs = 0
    /\ calls = 0
    /\ fails = 0
    /\ overlap = FALSE
    /\ resolved = [config |-> 0, credentials |-> 0]
    /\ last = [who |-> "none", op |-> "init", task |-> <<>>, ev |-> <<>>]

Step(P) ==
    \E p \in P \cup {Child(q) : q \in P} :
       \/ check_dependencies(p, P)
       \/ base_installer(p)
       \/ client(p, P)
       \/ _config(p)
       \/ _credentials(p)
       \/ __init__(p)
       \/ conda(p)
       \/ git(p)
       \/ rdkit(p)
       \/ config(p)
       \/ base_conda(p)
       \/ server_docker(p)
       \/ returned(p)
       \/ remove_log(p)
       \/ Crash(p)

\* one orchestrator process at a time
Next == Step({"p1"})

Spec == Init /\ [][Next]_vars

\* ------------------------------------------------------------ write_log, then read_log

\* the characters of the task names tried: "a", "b" and " "
Chars == {97, 98, 32}

\* the longest task name tried, and the largest set of them
MaxLen == 2
MaxSet == 2

\* the strings of at most n characters
RECURSIVE Strs(_)
Strs(n) ==
    IF n = 0 THEN {<<>>}
    ELSE LET shorter == Strs(n - 1)
         IN shorter \cup {Append(x, c) : x \in {y \in shorter : Len(y) = n - 1}, c \in Chars}

\* non-empty, newline-free names
Names == Strs(MaxLen) \ {<<>>}

InitRT ==
    /\ file = NoFile
    /\ tools = {}
    /\ modules = {}
    /\ conda_envs = {}
    /\ images = {}
    /\ eos = [config |-> "absent", credentials |-> "absent"]
    /\ dirs = [d \in Dirs |-> {}]
    /\ pc = [p \in Insts |-> IF p = "p1" THEN "idle" ELSE "new"]
    /\ stack = [p \in Insts |-> <<>>]
    /\ todo = [p \in Insts |-> <<>>]
    /\ kind = [p \in Insts |-> "none"]
    /\ check_install_log = [p \in Insts |-> TRUE]
    /\ \E S \in {T \in SUBSET Names : Cardinality(T) <= MaxSet} :
          log = [p \in Insts |-> IF p = "p1" THEN Some(S) ELSE None]
    /\ development_path = [p \in Insts |-> "None"]
    /\ home = [p \in Insts |-> "pkg"]
    /\ pyenv = [p \in Insts |-> "cur"]
    /\ acts = [t \in Tasks |-> 0]
    /\ attempted = {}
    /\ cleared = FALSE
    /\ runs = 0
    /\ calls = 0
    /\ fails = 0
    /\ overlap = FALSE
    /\ resolved = [config |-> 0, credentials |-> 0]
    /\ last = [who |-> "none", op |-> "init", task |-> <<>>, ev |-> <<>>]

\* one Installer writes its set
roundtrip_write(p) ==
    /\ pc[p] = "idle"
    /\ ~file.exists
    /\ file' = write_log(log[p], file)
    /\ pc' = [pc EXCEPT ![p] = "done"]
    /\ Note(p, "write_log", <<>>, <<"write_log">>)
    /\ UNCHANGED <<stack, log, attempted, machine, fields, development_path, history>>

\* and a new one reads it
roundtrip_read(p, q) ==
    /\ pc[p] = "done"
    /\ pc[q] = "new"
    /\ log' = [log EXCEPT ![q] = read_log(None, file)]
    /\ pc' = [pc EXCEPT ![q] = "idle"]
    /\ Note(q, "read_log", <<>>, <<"read">>)
    /\ UNCHANGED <<stack, file, attempted, machine, fields, development_path, history>>

NextRT == roundtrip_write("p1") \/ roundtrip_read("p1", "p2")

SpecRT == InitRT /\ [][NextRT]_vars

\* ------------------------------------------------------------ properties

\* what read_log yields for the texts write_log can have written, computed once
Loaded ==
    LET texts == {write_lines(sorted(S)) : S \in SUBSET Tasks}
    IN [t \in texts |-> read_log(None, File(t)).items] @@ <<>>

\* the task names a load of the log file yields
Ledger ==
    IF file.text \in DOMAIN Loaded THEN Loaded[file.text] ELSE read_log(None, file).items

InFile(task) == file.exists /\ task \in Ledger

Tracked(p) == check_install_log[p]

\* process p takes the step
Moved(p) == pc'[p] # pc[p] \/ stack'[p] # stack[p]

\* the tasks of the steps p is in all are in its memory and in the log file
Recorded(p) ==
    \A i \in 1..Len(stack[p]) : stack[p][i] \in log[p].items /\ InFile(stack[p][i])

\* C1: under tracking and without remove_log, the install command of a task is started at
\* most once, and a step that ran before (in this process or in an earlier one) returns
\* from _is_done with no external call: no probe, no write, no command
C1_Idempotent ==
    [][~cleared' =>
        /\ \A t \in Tasks : acts'[t] <= 1
        /\ \A p \in Insts :
              (Tracked(p) /\ pc[p] = "is_done" /\ Top(p) \in attempted /\ Moved(p))
              => /\ last'.op = "skip"
                 /\ last'.ev = <<>>
                 /\ acts' = acts
                 /\ file' = file
                 /\ machine' = machine]_vars

\* a second call in the same process was skipped after the command had run once
C1_Witness ==
    /\ last.op = "skip"
    /\ ~cleared
    /\ runs = 1
    /\ calls = 2
    /\ acts[last.task] = 1

\* C2 as stated: in every process, whatever its check_install_log, the task of a step
\* that is at its probe or its action is in self.log and in the log file
C2_Original ==
    \A p \in Insts : pc[p] \in {"probe", "action", "wait_child"} => Recorded(p)

\* C2, amended: under tracking the task is in self.log and in the log file whenever its
\* step is at its probe or its action, so also when the command is killed; and a task
\* whose command was started is skipped by every later tracked step, with no new command
C2_MarkThenAct ==
    [][/\ \A p \in Insts :
             (Tracked(p)' /\ pc'[p] \in {"probe", "action", "wait_child"}) => Recorded(p)'
       /\ \A p \in Insts :
             (Tracked(p) /\ pc[p] = "action" /\ pc'[p] = "dead")
             => (file'.exists /\ Top(p) \in Ledger')
       /\ ~cleared' =>
             \A p \in Insts :
                (Tracked(p) /\ pc[p] = "is_done" /\ Moved(p) /\ acts[Top(p)] >= 1)
                => (last'.op = "skip" /\ acts' = acts)]_vars

\* the command of conda was killed (started, possible, not failed, yet conda is absent),
\* and a later step skipped conda
C2_Witness ==
    /\ last.op = "skip"
    /\ last.task = CONDA
    /\ ~cleared
    /\ acts[CONDA] = 1
    /\ fails = 0
    /\ ~_is_tool("conda")

C4_TrackingDisabled ==
    [][\A p \in Insts :
          (~Tracked(p) /\ Moved(p)
             /\ pc[p] \in {"is_done", "probe", "action", "wait_child", "returned"})
          => /\ log'[p] = log[p] \/ last'.op = "crash"
             /\ file' = file
             /\ pc[p] = "is_done" => (pc'[p] = "probe" /\ last'.op = "untracked")]_vars

\* the process base_conda's script starts is about to install rdkit, which its
\* self.log holds
C4_Witness ==
    /\ pc["c1"] = "action"
    /\ ~Tracked("c1")
    /\ Top("c1") = RDKIT
    /\ RDKIT \in log["c1"].items

\* C5: for a set of non-empty newline-free names, read_log after write_log yields the set
C5_RoundTrip ==
    (pc["p1"] = "done" /\ pc["p2"] = "idle") => log["p2"] = log["p1"]

\* C6: after remove_log no task is in self.log of the same Installer, a step of a task
\* not attempted since then records it and goes on to its probe, and the log file holds
\* only tasks attempted since then
C6_ClearResets ==
    [][/\ last'.op = "remove_log" => log'[last'.who].items = {}
       /\ \A p \in Insts :
             (Tracked(p) /\ pc[p] = "is_done" /\ Moved(p) /\ Top(p) \notin attempted)
             => last'.op = "mark"
       /\ file'.exists => Ledger' \subseteq attempted']_vars

\* C7: unless remove_log is called, the log file and self.log of a running process only
\* grow, and a new process loads all of the file
C7_Monotone ==
    [][last'.op # "remove_log" =>
        /\ (file.exists /\ file' # file) => (file'.exists /\ Ledger \subseteq Ledger')
        /\ \A p \in Insts :
              (pc[p] \notin Stopped /\ pc'[p] \notin Stopped)
              => /\ log[p].items \subseteq log'[p].items
                 /\ log'[p].none => log[p].none
        /\ (last'.op = "read_log" /\ file.exists)
              => Ledger \subseteq log'[last'.who].items]_vars

\* a second process recorded rdkit as its first call; conda, from the first process, is
\* still in its self.log and in the file
C7_Witness ==
    /\ runs = 2
    /\ calls = 1
    /\ ~cleared
    /\ last.op = "mark"
    /\ last.task = RDKIT
    /\ CONDA \in log[last.who].items
    /\ InFile(CONDA)
    /\ InFile(RDKIT)

\* C8: the first process on the fresh machine, running check_dependencies: conda called
\* from git never passes _is_done, the command of conda is started once, and at the end
\* the log file and self.log hold exactly the six tasks
C8_FreshMachine ==
    \A p \in Procs :
       (runs = 1 /\ kind[p] = "check_dependencies") =>
          /\ Len(stack[p]) = 2 => pc[p] = "is_done"
          /\ acts[CONDA] <= 1
          /\ pc[p] = "done" =>
                /\ acts[CONDA] = 1
                /\ file.exists
                /\ Ledger = Tasks
                /\ log[p] = Some(Tasks)

\* check_dependencies has ended, nothing failed and everything is installed
C8_Witness ==
    /\ runs = 1
    /\ kind["p1"] = "check_dependencies"
    /\ pc["p1"] = "done"
    /\ fails = 0
    /\ tools = {"conda", "git"}
    /\ "cur" \in modules
    /\ "base" \in conda_envs
    /\ "server" \in images

\* C9: under tracking, _is_done of a task that self.log holds returns True: the file
\* is not written, nothing is probed or run, and the machine stays as it is
C9_AlreadyMarked ==
    [][\A p \in Insts :
          (Tracked(p) /\ pc[p] = "is_done" /\ Moved(p)
             /\ ~log[p].none /\ Top(p) \in log[p].items)
          => /\ last'.op = "skip"
             /\ last'.ev = <<>>
             /\ pc'[p] \in {"returned", "action"}
             /\ pc'[p] = "action" => Len(stack'[p]) = Len(stack[p]) - 1
             /\ file' = file
             /\ log' = log
             /\ acts' = acts
             /\ machine' = machine]_vars

\* check_dependencies skipped conda, its first call, so that read_log loaded it; and
\* conda is not on the path
C9_Witness ==
    /\ kind["p1"] = "check_dependencies"
    /\ Len(todo["p1"]) = 5
    /\ last.op = "skip"
    /\ last.task = CONDA
    /\ ~_is_tool("conda")

\* C10: _config with the destination absent: when the candidate directory has every
\* marker file and config.json, a link and no fetch; else one fetch and no link
C10_Fallback ==
    [][(last'.op = "_config" /\ eos.config = "absent") =>
          LET d == dirs[home[last'.who]]
          IN IF Markers \subseteq d /\ "config.json" \in d
             THEN last'.ev = <<"symlink">> /\ eos'.config = "link"
             ELSE last'.ev = <<"download_single">> /\ eos'.config # "link"]_vars

\* the artifact a resolver is for
Artifact(op) == IF op = "_config" THEN "config" ELSE "credentials"

\* C11 as stated: a destination that exists makes the resolver return at once, and two
\* resolutions of an artifact go past the destination test at most once
C11_Original ==
    \A a \in {"config", "credentials"} : resolved[a] <= 1

\* C11, amended: _config and _credentials return at once when the destination exists:
\* no link, no fetch, no secrets fetch, whatever self.log, the log file and the
\* development path are; a destination once there stays; so a second resolution acts
\* only when the destination is still absent after the first
C11_ResolverNoOp ==
    [][/\ \A a \in {"config", "credentials"} :
             /\ eos[a] # "absent" => eos'[a] = eos[a]
             /\ resolved'[a] # resolved[a] => eos[a] = "absent"
       /\ (last'.op \in {"_config", "_credentials"} /\ eos[Artifact(last'.op)] # "absent")
          => /\ last'.ev = <<>>
             /\ eos' = eos
             /\ dirs' = dirs
             /\ development_path' = development_path
             /\ resolved' = resolved
             /\ file' = file
             /\ log' = log]_vars

\* a second process found EOS/config.json, which the first one's _config had made,
\* and a log file
C11_Witness ==
    /\ last.op = "_config"
    /\ last.ev = <<>>
    /\ runs = 2
    /\ resolved.config = 1
    /\ file.exists

\* ------------------------------------------------------------ a log file left by others

\* the machine with a log file that holds conda, readable or not
InitIO ==
    /\ \E r \in BOOLEAN : file = [File(write_lines(sorted({CONDA}))) EXCEPT !.readable = r]
    /\ tools = {}
    /\ modules = {}
    /\ conda_envs = {}
    /\ images = {}
    /\ eos = [config |-> "absent", credentials |-> "absent"]
    /\ dirs \in {[d \in Dirs |-> IF d = "pkg" THEN S ELSE {}] : S \in Checkouts}
    /\ pc = [p \in Insts |-> "new"]
    /\ stack = [p \in Insts |-> <<>>]
    /\ todo = [p \in Insts |-> <<>>]
    /\ kind = [p \in Insts |-> "none"]
    /\ check_install_log = [p \in Insts |-> TRUE]
    /\ log = [p \in Insts |-> None]
    /\ development_path = [p \in Insts |-> "None"]
    /\ home = [p \in Insts |-> "pkg"]
    /\ pyenv = [p \in Insts |-> "cur"]
    /\ acts = [t \in Tasks |-> 0]
    /\ attempted = {}
    /\ cleared = FALSE
    /\ runs = 0
    /\ calls = 0
    /\ fails = 0
    /\ overlap = FALSE
    /\ resolved = [config |-> 0, credentials |-> 0]
    /\ last = [who |-> "none", op |-> "init", task |-> <<>>, ev |-> <<>>]

SpecIO == InitIO /\ [][Next]_vars

\* C12: when the log file exists and cannot be read, the constructor ends normally
\* with an empty ledger, so that every step is attempted again
C12_ReadFailureRecovered ==
    [][(last'.op = "read_log" /\ file.exists /\ ~file.readable)
       => /\ pc'[last'.who] = "idle"
          /\ log'[last'.who].items = {}]_vars

\* C13 as stated: a probe of rdkit that fails otherwise than with "module not found"
\* leaves rdkit() without the install command, and rdkit is in self.log and in the file
C13_Original ==
    last.op = "probe_error" =>
        /\ pc[last.who] = "dead"
        /\ RDKIT \in log[last.who].items
        /\ InFile(RDKIT)

\* C13, amended: only "module not found" leads to the install command; any other
\* failure of the import ends rdkit() and its callers with no command started and
\* nothing changed, and under check_install_log = True rdkit is in self.log and the file
C13_ProbeErrorsPropagate ==
    [][/\ last'.op = "probe_error"
          => /\ pc'[last'.who] = "dead"
             /\ acts' = acts
             /\ machine' = machine
             /\ file' = file
             /\ log' = log
             /\ Tracked(last'.who) => (RDKIT \in log'[last'.who].items /\ InFile(RDKIT)')
       /\ \A p \in Insts :
             (pc'[p] = "action" /\ Top(p)' = RDKIT /\ Moved(p))
             => (pyenv[p] \notin modules /\ Broken(pyenv[p]) \notin modules)]_vars

\* check_dependencies, with rdkit recorded by itself, has met the broken install
C13_Witness ==
    /\ last.op = "probe_error"
    /\ Tracked(last.who)
    /\ kind[last.who] = "check_dependencies"
    /\ acts[RDKIT] = 0
    /\ InFile(RDKIT)

\* C14: a tracked git() that is not yet recorded calls conda() before it evaluates its
\* probe, so that conda is in self.log and in the file when "which git" is evaluated and
\* when git() returns, also when git is on the path
C14_CondaBeforeGitProbe ==
    [][/\ (last'.op \in {"probe_true", "probe_false"} /\ last'.task = GIT
             /\ Tracked(last'.who))
          => (CONDA \in log[last'.who].items /\ InFile(CONDA))
       /\ \A p \in Insts :
             (Tracked(p) /\ stack[p] = <<GIT>> /\ pc[p] \in {"probe", "action"}
                /\ pc'[p] = "returned")
             => (CONDA \in log'[p].items /\ InFile(CONDA)')]_vars

\* C15: _package_path sets self.development_path to the candidate directory only when
\* the three marker files are in it, and leaves it None otherwise
C15_MustMatchAll ==
    [][\A p \in Insts :
          (development_path'[p] # development_path[p] /\ development_path'[p] # "None")
          => Markers \subseteq dirs[development_path'[p]]]_vars

\* C16: the action of config(), with the destination absent: a link to the development
\* path's config.json when that file exists, else one remote fetch, and never an error
C16_ConfigStepOrder ==
    [][(last'.op = "action" /\ last'.task = CONFIG) =>
          LET p == last'.who
              dp == development_path'[p]
          IN /\ pc'[p] # "dead"
             /\ IF dp # "None" /\ "config.json" \in dirs[dp]
                THEN eos'.config = "link"
                ELSE last'.ev = <<"download_single">>]_vars

\* C17: read_log with no log file leaves self.log None (which is not the empty set) and
\* creates no file; the first tracked record then creates the file with exactly that
\* task; and write_log with self.log None writes nothing
C17_LazyCreation ==
    [][/\ (last'.op = "read_log" /\ ~file.exists)
          => /\ log'[last'.who] = None
             /\ None # Some({})
             /\ file' = file
       /\ (last'.op = "mark" /\ log[last'.who].none)
          => /\ file'.exists
             /\ file'.text = last'.task \o <<NL>>
             /\ log'[last'.who] = Some({last'.task})
       /\ write_log(None, file) = file]_vars

\* the first record of the first process: the file holds that task and nothing else
C17_Witness ==
    /\ last.op = "mark"
    /\ runs = 1
    /\ calls = 1
    /\ file.exists
    /\ file.text = last.task \o <<NL>>
    /\ log[last.who] = Some({last.task})

\* the lines of the texts write_log can have written, computed once
LoadedLines ==
    LET texts == {write_lines(sorted(S)) : S \in SUBSET Tasks}
    IN [t \in texts |-> file_lines(t, 1)] @@ <<>>

\* the lines of the log file
Lines ==
    IF file.text \in DOMAIN LoadedLines THEN LoadedLines[file.text]
    ELSE file_lines(file.text, 1)

\* an Installer whose constructor has returned, in a process that is running
Constructed(p) ==
    pc[p] \in {"idle", "is_done", "probe", "action", "wait_child", "returned"}

\* C18: with one process at a time and while remove_log was not called, a log file that
\* exists holds exactly self.log of the running Installer: one name and a newline per
\* line, the lines ascending, so none twice; and update_log of a name that self.log
\* holds changes neither self.log nor the file
C18_FileConsistency ==
    (file.exists /\ ~cleared) =>
        /\ \A i \in 1..Len(Lines) : Lines[i] = rstrip(Lines[i]) \o <<NL>>
        /\ \A i \in 1..Len(Lines) : \A j \in 1..Len(Lines) :
              i < j => str_lt(Lines[i], Lines[j])
        /\ \A p \in Insts :
              Constructed(p) =>
                 /\ log[p] = Some(Ledger)
                 /\ Cardinality(log[p].items) = Len(Lines)
                 /\ \A t \in log[p].items :
                       update_log(log[p], file, t) = [log |-> log[p], file |-> file]

\* three tasks recorded, by two processes one after the other
C18_Witness ==
    /\ file.exists
    /\ ~cleared
    /\ runs = 2
    /\ last.op = "mark"
    /\ Len(Lines) = 3
    /\ log[last.who] = Some(Ledger)

\* ------------------------------------------------------------ processes at the same time

\* a machine whose candidate directory is a checkout with both artifacts
InitC ==
    /\ file = NoFile
    /\ tools = {}
    /\ modules = {}
    /\ conda_envs = {}
    /\ images = {}
    /\ eos = [config |-> "absent", credentials |-> "absent"]
    /\ dirs = [d \in Dirs |-> IF d = "pkg" THEN Files ELSE {}]
    /\ pc = [p \in Insts |-> "new"]
    /\ stack = [p \in Insts |-> <<>>]
    /\ todo = [p \in Insts |-> <<>>]
    /\ kind = [p \in Insts |-> "none"]
    /\ check_install_log = [p \in Insts |-> TRUE]
    /\ log = [p \in Insts |-> None]
    /\ development_path = [p \in Insts |-> "None"]
    /\ home = [p \in Insts |-> "pkg"]
    /\ pyenv = [p \in Insts |-> "cur"]
    /\ acts = [t \in Tasks |-> 0]
    /\ attempted = {}
    /\ cleared = FALSE
    /\ runs = 0
    /\ calls = 0
    /\ fails = MaxFailures
    /\ overlap = FALSE
    /\ resolved = [config |-> 0, credentials |-> 0]
    /\ last = [who |-> "none", op |-> "init", task |-> <<>>, ev |-> <<>>]

\* callers of the class in processes that start whenever they like; none of them is
\* killed, and no command fails that could have succeeded
NextC ==
    \E q \in Procs : \E p \in {q, Child(q)} :
       \/ client(p, {q})
       \/ base_installer(p)
       \/ _config(p)
       \/ _credentials(p)
       \/ __init__(p)
       \/ conda(p)
       \/ git(p)
       \/ rdkit(p)
       \/ config(p)
       \/ base_conda(p)
       \/ server_docker(p)
       \/ returned(p)

SpecC == InitC /\ [][NextC]_vars

\* the tasks recorded under tracking that the log file does not hold
Lost == attempted \ (IF file.exists THEN Ledger ELSE {})

\* C19: as long as no orchestrator process was started while another one ran, the log
\* file holds every task recorded under tracking; processes that overlap can lose one
\* (the state C19_Witness)
C19_NoLossWhenSequential ==
    (~overlap /\ ~cleared) => Lost = {}

\* two tracked Installers, each constructed before the other one's record, have each
\* recorded a task, and the file lacks one of the two
C19_Witness ==
    /\ overlap
    /\ ~cleared
    /\ file.exists
    /\ Lost # {}
    /\ \A p \in Procs : Tracked(p) /\ Constructed(p) /\ ~log[p].none
    /\ log["p1"].items # log["p2"].items
    /\ Ledger \in {log[p].items : p \in Procs}
====
